---- MODULE Spec2Model ----
(***************************************************************************)
(* Name binding for one translation unit (lib/Sema/NameBinding.cpp).       *)
(*                                                                         *)
(* performNameBinding constructs a NameBinder, runs a prepass over the     *)
(* unit's top-level declarations (registering named values and loading     *)
(* imports) and then rewrites every initializer, replacing each            *)
(* UnresolvedDeclRefExpr by the result of NameBinder::bindValueName.       *)
(***************************************************************************)
EXTENDS Integers, Sequences, FiniteSets, TLC

(* ------------------------------------------------------------------ *)
(* Bounds of the model.                                                *)
(* ------------------------------------------------------------------ *)

\* Largest number of top-level declarations of the unit being bound.
MaxDecls == 3

(* ------------------------------------------------------------------ *)
(* AST nodes.                                                          *)
(* ------------------------------------------------------------------ *)

\* A null Expr* (also the Init of a declaration without initializer).
NullExpr == [k |-> "null"]

\* A null ValueDecl* / ReferencedModule*.
NullDecl == [TU |-> -1, Idx |-> -1]

\* The translation unit handed to performNameBinding.
MainTU == 0

\* A ValueDecl*: the translation unit that owns it and its position there.
\* Imported units are numbered by the ReferencedModule wrapping them.
DeclPtr(tu, idx) == [TU |-> tu, Idx |-> idx]

UnresolvedDeclRefExpr(name, loc) ==
    [k |-> "UnresolvedDeclRefExpr", Name |-> name, Loc |-> loc]

DeclRefExpr(D, loc) == [k |-> "DeclRefExpr", D |-> D, Loc |-> loc]

IntegerLiteral == [k |-> "IntegerLiteral"]

\* An expression with sub-expressions (a call, a binary operator, a tuple).
ApplyExpr(subs) == [k |-> "ApplyExpr", Sub |-> subs]

ValueDecl(name, init) == [k |-> "ValueDecl", Name |-> name, Init |-> init]

ImportDecl(name, loc) == [k |-> "ImportDecl", Name |-> name, ImportLoc |-> loc]

\* A declaration that is neither a ValueDecl nor an ImportDecl.
OtherDecl == [k |-> "Decl"]

\* The empty Identifier.
EmptyName == ""

(* ------------------------------------------------------------------ *)
(* DenseMap<Identifier, ValueDecl*>.                                   *)
(* ------------------------------------------------------------------ *)

EmptyMap == << >>

MapEmpty(M) == DOMAIN M = {}

MapHas(M, key) == key \in DOMAIN M

\* operator[] followed by assignment: insert or overwrite.
MapPut(M, key, val) ==
    [x \in (DOMAIN M) \cup {key} |-> IF x = key THEN val ELSE M[x]]

(* ------------------------------------------------------------------ *)
(* The compilation context: error flag, diagnostics, source buffers.   *)
(* ------------------------------------------------------------------ *)

Diagnostic(loc, msg, kind) == [Loc |-> loc, Message |-> msg, Kind |-> kind]

\* ASTContext::setHadError.
setHadError(Ctx) == [Ctx EXCEPT !.HadError = TRUE]

\* SourceMgr::PrintMessage(Loc, Message, Kind).
PrintMessage(Ctx, loc, msg, kind) ==
    [Ctx EXCEPT !.Diags = Append(@, Diagnostic(loc, msg, kind))]

\* SourceMgr::AddNewSourceBuffer(Buffer, IncludeLoc); the new buffer's id
\* is its position in the buffer list.
AddNewSourceBuffer(Ctx, file, loc) ==
    [Ctx EXCEPT !.Buffers = Append(@, [File |-> file, IncludeLoc |-> loc])]

\* NameBinder::error without the flag: what a slip in it would look like.
error_NoFlag(Ctx, loc, msg) == PrintMessage(Ctx, loc, msg, "error")

\* NameBinder::error.
error(Ctx, loc, msg) == PrintMessage(setHadError(Ctx), loc, msg, "error")

\* NameBinder::warning.
warning(Ctx, loc, msg) == PrintMessage(Ctx, loc, msg, "warning")

\* NameBinder::note.
note(Ctx, loc, msg) == PrintMessage(Ctx, loc, msg, "note")

(* ------------------------------------------------------------------ *)
(* The source files an import can name, as the parser sees them.       *)
(* ------------------------------------------------------------------ *)

\* Module identifiers an import statement of the model may name.  "X" has
\* no source file, "P" has a source file that does not parse.
ModuleIds == {"L", "M", "E", "X", "P"}

\* std::string InputFilename = ModuleID.get() + ".swift".
InputFilename(ModuleID) == ModuleID \o ".swift"

\* Lib: declares h twice, a, imports M, and holds an unnamed value.
UnitL ==
    << ValueDecl("h", UnresolvedDeclRefExpr("q", <<"L.swift", 1, 1>>)),
       ValueDecl("a", NullExpr),
       ImportDecl("M", <<"L.swift", 3, 0>>),
       ValueDecl("h", IntegerLiteral),
       ValueDecl(EmptyName, IntegerLiteral) >>

\* M: declares h and m.
UnitM ==
    << ValueDecl("h", IntegerLiteral),
       ValueDecl("m", UnresolvedDeclRefExpr("h", <<"M.swift", 2, 1>>)) >>

\* E: parses, but holds no named value declaration.
UnitE ==
    << ValueDecl(EmptyName, IntegerLiteral),
       ImportDecl("M", <<"E.swift", 2, 0>>),
       OtherDecl >>

\* The readable files and what the parser makes of each.
SourceFiles ==
    [f \in {"L.swift", "M.swift", "E.swift", "P.swift"} |->
        CASE f = "L.swift" -> [Parses |-> TRUE, Decls |-> UnitL]
          [] f = "M.swift" -> [Parses |-> TRUE, Decls |-> UnitM]
          [] f = "E.swift" -> [Parses |-> TRUE, Decls |-> UnitE]
          [] f = "P.swift" -> [Parses |-> FALSE, Decls |-> << >>]]

\* llvm::MemoryBuffer::getFile: TRUE when the file can be read.
getFile(filename) == filename \in DOMAIN SourceFiles

\* Parser(BufferID, Context).parseTranslationUnit(): the parsed unit, or a
\* null unit after the parser has reported the malformed input itself.
\* No name binding is done on the parsed unit.
parseTranslationUnit(Ctx, BufferID) ==
    LET file == Ctx.Buffers[BufferID].File
        src  == SourceFiles[file]
    IN  IF ~src.Parses
        THEN [Ok |-> FALSE, Decls |-> << >>,
              Ctx |-> PrintMessage(setHadError(Ctx), <<file, 1, 0>>,
                                   <<"expected declaration">>, "error")]
        ELSE [Ok |-> TRUE, Decls |-> src.Decls, Ctx |-> Ctx]

(* ------------------------------------------------------------------ *)
(* State.                                                              *)
(* ------------------------------------------------------------------ *)

VARIABLES
    Decls,            \* TUD->Decls of the unit being bound (Init is rewritten)
    Context,          \* ASTContext: HadError, Diags, Buffers
    TopLevelValues,   \* NameBinder::TopLevelValues
    Imports,          \* NameBinder::Imports: <<ImportDecl*, ReferencedModule*>>
    LoadedModules,    \* NameBinder::LoadedModules
    pc,               \* position in performNameBinding
    I,                \* the iterator of the running loop
    Decls0            \* history: the unit as parsed

vars == <<Decls, Context, TopLevelValues, Imports, LoadedModules, pc, I,
          Decls0>>

(* ------------------------------------------------------------------ *)
(* ReferencedModule.                                                   *)
(* ------------------------------------------------------------------ *)

\* ReferencedModule(TranslationUnitDecl *tud).  Scans counts the runs of
\* the map-building loop of lookupValue, Lookups the calls of lookupValue.
ReferencedModule(id, tud) ==
    [ID |-> id, TUD |-> tud, TopLevelValues |-> EmptyMap,
     Scans |-> 0, Lookups |-> 0]

\* The loop of lookupValue over TUD->Decls, from position i on.
RECURSIVE BuildTopLevelValues(_, _, _, _)
BuildTopLevelValues(M, tu, decls, i) ==
    IF i > Len(decls) THEN M
    ELSE BuildTopLevelValues(
            IF decls[i].k = "ValueDecl" /\ decls[i].Name # EmptyName
            THEN MapPut(M, decls[i].Name, DeclPtr(tu, i))
            ELSE M,
            tu, decls, i + 1)

\* lookupValue that also searches the modules the module imports.
lookupValue_Transitive(RM, Name) ==
    LET own == BuildTopLevelValues(EmptyMap, RM.ID, RM.TUD, 1)
        viaImport == { d \in 1..Len(RM.TUD) :
                         /\ RM.TUD[d].k = "ImportDecl"
                         /\ getFile(InputFilename(RM.TUD[d].Name))
                         /\ \E j \in 1..Len(SourceFiles[InputFilename(RM.TUD[d].Name)].Decls) :
                              LET X == SourceFiles[InputFilename(RM.TUD[d].Name)].Decls[j]
                              IN  X.k = "ValueDecl" /\ X.Name = Name }
    IN  [RM |-> [RM EXCEPT !.TopLevelValues = own, !.Lookups = @ + 1,
                           !.Scans = IF MapEmpty(RM.TopLevelValues) THEN @ + 1 ELSE @],
         D  |-> IF MapHas(own, Name) THEN own[Name]
                ELSE IF viaImport # {} THEN DeclPtr(RM.ID, CHOOSE d \in viaImport : TRUE)
                ELSE NullDecl]

\* ReferencedModule::lookupValue(ID, Name): the module after the call and
\* the declaration found (NullDecl when the name is not in the map).
lookupValue(RM, Name) ==
    LET built == IF MapEmpty(RM.TopLevelValues)
                 THEN [RM EXCEPT
                         !.TopLevelValues =
                             BuildTopLevelValues(EmptyMap, RM.ID, RM.TUD, 1),
                         !.Scans = @ + 1]
                 ELSE RM
        after == [built EXCEPT !.Lookups = @ + 1]
    IN  [RM |-> after,
         D  |-> IF MapHas(after.TopLevelValues, Name)
                THEN after.TopLevelValues[Name]
                ELSE NullDecl]

(* ------------------------------------------------------------------ *)
(* NameBinder.                                                         *)
(* ------------------------------------------------------------------ *)

\* A null ReferencedModule*; a loaded one is its position in LoadedModules.
NullModule == 0

\* addNamedTopLevelDecl that keeps the first declaration of a name.
addNamedTopLevelDecl_KeepFirst(TLV, VD, Name) ==
    IF MapHas(TLV, Name) THEN TLV ELSE MapPut(TLV, Name, VD)

\* NameBinder::addNamedTopLevelDecl(VD): TopLevelValues[VD->Name] = VD.
addNamedTopLevelDecl(TLV, VD, Name) == MapPut(TLV, Name, VD)

\* getReferencedModule without the return after a failed open: it goes on
\* with an empty unit.
getReferencedModule_NoReturn(Loc, ModuleID, LM, Ctx) ==
    LET InputFile == InputFilename(ModuleID)
        Ctx0     == IF getFile(InputFile) THEN Ctx
                    ELSE error(Ctx, Loc, <<"opening import file", InputFile>>)
        Ctx1     == AddNewSourceBuffer(Ctx0, InputFile, Loc)
        BufferID == Len(Ctx1.Buffers)
        parsed   == IF getFile(InputFile)
                    THEN parseTranslationUnit(Ctx1, BufferID)
                    ELSE [Ok |-> TRUE, Decls |-> << >>, Ctx |-> Ctx1]
    IN  IF ~parsed.Ok
        THEN [RM |-> NullModule, LoadedModules |-> LM, Context |-> parsed.Ctx]
        ELSE [RM |-> Len(LM) + 1,
              LoadedModules |->
                  Append(LM, ReferencedModule(Len(LM) + 1, parsed.Decls)),
              Context |-> parsed.Ctx]

\* NameBinder::getReferencedModule(Loc, ModuleID): the module loaded (or
\* NullModule), LoadedModules and the context after the call.
getReferencedModule(Loc, ModuleID, LM, Ctx) ==
    LET InputFile == InputFilename(ModuleID)
    IN  IF ~getFile(InputFile)
        THEN [RM |-> NullModule, LoadedModules |-> LM,
              Context |-> error(Ctx, Loc, <<"opening import file", InputFile>>)]
        ELSE
          LET Ctx1     == AddNewSourceBuffer(Ctx, InputFile, Loc)
              BufferID == Len(Ctx1.Buffers)
              parsed   == parseTranslationUnit(Ctx1, BufferID)
          IN  IF ~parsed.Ok
              THEN [RM |-> NullModule, LoadedModules |-> LM,
                    Context |-> parsed.Ctx]
              ELSE [RM |-> Len(LM) + 1,
                    LoadedModules |->
                        Append(LM, ReferencedModule(Len(LM) + 1, parsed.Decls)),
                    Context |-> parsed.Ctx]

\* NameBinder::addImport(ID): Imports, LoadedModules and the context after.
addImport(ID, Imps, LM, Ctx) ==
    LET r == getReferencedModule(Decls[ID].ImportLoc, Decls[ID].Name, LM, Ctx)
    IN  [Imports |-> IF r.RM # NullModule
                     THEN Append(Imps, [ID |-> ID, RM |-> r.RM])
                     ELSE Imps,
         LoadedModules |-> r.LoadedModules,
         Context |-> r.Context]

\* The import loop of bindValueName from entry i on.  W carries
\* LoadedModules and Context through the calls.
RECURSIVE ScanImports(_, _, _, _)
ScanImports(i, Name, Loc, W) ==
    IF i > Len(Imports)
    THEN [E |-> NullExpr,
          W |-> [W EXCEPT !.Context =
                   error(@, Loc, <<"use of unresolved identifier", Name>>)]]
    ELSE LET rm == Imports[i].RM
             r  == lookupValue(W.LoadedModules[rm], Name)
             W1 == [W EXCEPT !.LoadedModules[rm] = r.RM]
         IN  IF r.D # NullDecl
             THEN [E |-> DeclRefExpr(r.D, Loc), W |-> W1]
             ELSE ScanImports(i + 1, Name, Loc, W1)

\* bindValueName that asks the imports before the unit's own table.
bindValueName_ImportsFirst(Name, Loc, W) ==
    LET r == ScanImports(1, Name, Loc, W)
    IN  IF r.E # NullExpr \/ ~MapHas(TopLevelValues, Name) THEN r
        ELSE [E |-> DeclRefExpr(TopLevelValues[Name], Loc), W |-> W]

\* bindValueName that stays silent on an unresolved identifier.
bindValueName_Silent(Name, Loc, W) ==
    IF MapHas(TopLevelValues, Name)
    THEN [E |-> DeclRefExpr(TopLevelValues[Name], Loc), W |-> W]
    ELSE LET r == ScanImports(1, Name, Loc, W)
         IN  IF r.E # NullExpr THEN r
             ELSE [E |-> NullExpr,
                   W |-> [r.W EXCEPT !.Context = W.Context]]

\* NameBinder::bindValueName(Name, Loc): the expression returned and the
\* state after the call.
bindValueName(Name, Loc, W) ==
    IF MapHas(TopLevelValues, Name)
    THEN [E |-> DeclRefExpr(TopLevelValues[Name], Loc), W |-> W]
    ELSE ScanImports(1, Name, Loc, W)

\* BindNames that rewrites nothing.
BindNames_Ignore(E, Order, W) == [E |-> E, W |-> W]

\* BindNames(E, Order, binder): the callback handed to WalkExpr.
BindNames(E, Order, W) ==
    IF Order = "Walk_PreOrder" THEN [E |-> E, W |-> W]
    ELSE IF E.k # "UnresolvedDeclRefExpr" THEN [E |-> E, W |-> W]
    ELSE bindValueName(E.Name, E.Loc, W)

\* Expr::WalkExpr(BindNames, &Binder): the callback is run on a node before
\* and after its sub-expressions; each sub-expression is replaced by the
\* result of its own walk, a null result leaving a hole, and the walk goes
\* on to the remaining sub-expressions.
RECURSIVE WalkExpr(_, _)
RECURSIVE WalkSubs(_, _, _)
WalkSubs(Subs, i, W) ==
    IF i > Len(Subs) THEN [Subs |-> Subs, W |-> W]
    ELSE LET r == WalkExpr(Subs[i], W)
         IN  WalkSubs([Subs EXCEPT ![i] = r.E], i + 1, r.W)

WalkExpr(E, W) ==
    LET pre == BindNames(E, "Walk_PreOrder", W)
    IN  IF pre.E.k = "ApplyExpr"
        THEN LET subs == WalkSubs(pre.E.Sub, 1, pre.W)
             IN  BindNames([pre.E EXCEPT !.Sub = subs.Subs],
                           "Walk_PostOrder", subs.W)
        ELSE BindNames(pre.E, "Walk_PostOrder", pre.W)

(* ------------------------------------------------------------------ *)
(* The units handed to performNameBinding.                             *)
(* ------------------------------------------------------------------ *)

\* Names of the unit's own value declarations; EmptyName is an unnamed one.
LocalNames == {EmptyName, "h", "m"}

\* Initializers of the unit's value declarations, with locations relative
\* to the declaration: none, one reference, or a call with two references
\* and a literal.  Among the source files "h" is declared by L and M, "m"
\* by M alone and "g" by none.
InitTemplates ==
    { NullExpr,
      UnresolvedDeclRefExpr("h", 1),
      ApplyExpr(<< UnresolvedDeclRefExpr("g", 1),
                   UnresolvedDeclRefExpr("m", 2),
                   IntegerLiteral >>) }

DeclTemplates ==
    { ValueDecl(n, e) : n \in LocalNames, e \in InitTemplates }
    \cup { ImportDecl(m, 0) : m \in ModuleIds }
    \cup { OtherDecl }

\* The source location of position p of the i-th declaration.
SMLoc(i, p) == <<i, p>>

RECURSIVE StampExpr(_, _)
StampExpr(E, i) ==
    CASE E.k = "UnresolvedDeclRefExpr" -> [E EXCEPT !.Loc = SMLoc(i, @)]
      [] E.k = "ApplyExpr" ->
            [E EXCEPT !.Sub = [j \in 1..Len(@) |-> StampExpr(@[j], i)]]
      [] OTHER -> E

\* The template as the i-th declaration of the unit.
StampDecl(D, i) ==
    CASE D.k = "ValueDecl"  -> [D EXCEPT !.Init = StampExpr(@, i)]
      [] D.k = "ImportDecl" -> [D EXCEPT !.ImportLoc = SMLoc(i, @)]
      [] OTHER -> D

(* ------------------------------------------------------------------ *)
(* performNameBinding.                                                 *)
(* ------------------------------------------------------------------ *)

\* Entry: a parsed unit, a context without errors so far, and
\* NameBinder Binder(Ctx).
Init ==
    /\ \E n \in 0..MaxDecls : \E f \in [1..n -> DeclTemplates] :
          Decls = [i \in 1..n |-> StampDecl(f[i], i)]
    /\ Decls0 = Decls
    /\ Context = [HadError |-> FALSE, Diags |-> << >>, Buffers |-> << >>]
    /\ TopLevelValues = EmptyMap
    /\ Imports = << >>
    /\ LoadedModules = << >>
    /\ pc = "prepass"
    /\ I = 1

\* A prepass that stops after its first declaration.
PrepassDecl_StopEarly ==
    /\ pc = "prepass"
    /\ I <= Len(Decls)
    /\ LET D == Decls[I]
           imp == IF D.k = "ImportDecl"
                  THEN addImport(I, Imports, LoadedModules, Context)
                  ELSE [Imports |-> Imports, LoadedModules |-> LoadedModules,
                        Context |-> Context]
       IN  /\ TopLevelValues' =
                 IF D.k = "ValueDecl" /\ D.Name # EmptyName
                 THEN addNamedTopLevelDecl(TopLevelValues, DeclPtr(MainTU, I), D.Name)
                 ELSE TopLevelValues
           /\ Imports' = imp.Imports
           /\ LoadedModules' = imp.LoadedModules
           /\ Context' = imp.Context
    /\ I' = Len(Decls) + 1
    /\ UNCHANGED <<Decls, pc, Decls0>>

\* One iteration of the prepass loop: register a named value declaration,
\* load the module of an import declaration.
PrepassDecl ==
    /\ pc = "prepass"
    /\ I <= Len(Decls)
    /\ LET D == Decls[I]
           imp == IF D.k = "ImportDecl"
                  THEN addImport(I, Imports, LoadedModules, Context)
                  ELSE [Imports |-> Imports, LoadedModules |-> LoadedModules,
                        Context |-> Context]
       IN  /\ TopLevelValues' =
                 IF D.k = "ValueDecl" /\ D.Name # EmptyName
                 THEN addNamedTopLevelDecl(TopLevelValues, DeclPtr(MainTU, I), D.Name)
                 ELSE TopLevelValues
           /\ Imports' = imp.Imports
           /\ LoadedModules' = imp.LoadedModules
           /\ Context' = imp.Context
    /\ I' = I + 1
    /\ UNCHANGED <<Decls, pc, Decls0>>

\* The prepass loop ends; the rewrite loop starts at the first declaration.
PrepassEnd ==
    /\ pc = "prepass"
    /\ I > Len(Decls)
    /\ pc' = "rewrite"
    /\ I' = 1
    /\ UNCHANGED <<Decls, Context, TopLevelValues, Imports, LoadedModules,
                   Decls0>>

\* A rewrite loop that gives up at the first error it reports.
RewriteDecl_AbortOnError ==
    /\ pc = "rewrite"
    /\ I <= Len(Decls)
    /\ LET D == Decls[I]
           W == [LoadedModules |-> LoadedModules, Context |-> Context]
           r == IF D.k = "ValueDecl" /\ D.Init # NullExpr
                THEN WalkExpr(D.Init, W)
                ELSE [E |-> NullExpr, W |-> W]
       IN  /\ Decls' = IF D.k = "ValueDecl" /\ D.Init # NullExpr
                       THEN [Decls EXCEPT ![I].Init = r.E]
                       ELSE Decls
           /\ LoadedModules' = r.W.LoadedModules
           /\ Context' = r.W.Context
           /\ I' = IF Len(r.W.Context.Diags) > Len(Context.Diags)
                   THEN Len(Decls) + 1 ELSE I + 1
    /\ UNCHANGED <<TopLevelValues, Imports, pc, Decls0>>

\* One iteration of the rewrite loop: VD->Init = VD->Init->WalkExpr(...)
\* for a value declaration with an initializer.
RewriteDecl ==
    /\ pc = "rewrite"
    /\ I <= Len(Decls)
    /\ LET D == Decls[I]
           W == [LoadedModules |-> LoadedModules, Context |-> Context]
           r == IF D.k = "ValueDecl" /\ D.Init # NullExpr
                THEN WalkExpr(D.Init, W)
                ELSE [E |-> NullExpr, W |-> W]
       IN  /\ Decls' = IF D.k = "ValueDecl" /\ D.Init # NullExpr
                       THEN [Decls EXCEPT ![I].Init = r.E]
                       ELSE Decls
           /\ LoadedModules' = r.W.LoadedModules
           /\ Context' = r.W.Context
    /\ I' = I + 1
    /\ UNCHANGED <<TopLevelValues, Imports, pc, Decls0>>

\* The rewrite loop ends and performNameBinding returns: ~NameBinder
\* deletes the loaded modules and the binder's tables go with it.
Return ==
    /\ pc = "rewrite"
    /\ I > Len(Decls)
    /\ pc' = "done"
    /\ TopLevelValues' = EmptyMap
    /\ Imports' = << >>
    /\ LoadedModules' = << >>
    /\ UNCHANGED <<Decls, Context, I, Decls0>>

Next == PrepassDecl \/ PrepassEnd \/ RewriteDecl \/ Return

Spec == Init /\ [][Next]_vars

(* ------------------------------------------------------------------ *)
(* Vocabulary of the properties, stated over the unit as parsed and    *)
(* the source files rather than over the binder's tables.              *)
(* ------------------------------------------------------------------ *)

\* Names a reference may carry.
RefNames == {"a", "h", "m", "g"}

MaxOf(S) == CHOOSE x \in S : \A y \in S : y <= x

MinOf(S) == CHOOSE x \in S : \A y \in S : x <= y

\* Tree positions of an initializer: 0 is the root, j its j-th sub-expression.
Positions(E) == {0} \cup (IF E.k = "ApplyExpr" THEN 1..Len(E.Sub) ELSE {})

NodeAt(E, p) == IF p = 0 THEN E ELSE E.Sub[p]

\* Positions <<i, p>> of the unit that held an unresolved reference.
RefSites ==
    { s \in (1..Len(Decls0)) \X (0..3) :
        /\ Decls0[s[1]].k = "ValueDecl"
        /\ s[2] \in Positions(Decls0[s[1]].Init)
        /\ NodeAt(Decls0[s[1]].Init, s[2]).k = "UnresolvedDeclRefExpr" }

SiteRef(s) == NodeAt(Decls0[s[1]].Init, s[2])

\* What stands at the position now.
SiteNow(s) == NodeAt(Decls[s[1]].Init, s[2])

\* The rewrite loop has been over the i-th declaration.
Rewritten(i) == pc = "done" \/ (pc = "rewrite" /\ i < I)

\* Positions of the value declarations named n in a declaration list.
DeclsNamed(decls, n) ==
    { i \in 1..Len(decls) : decls[i].k = "ValueDecl" /\ decls[i].Name = n }

\* Import statements of the unit whose file is read and parsed.
Loadable(i) ==
    /\ Decls0[i].k = "ImportDecl"
    /\ InputFilename(Decls0[i].Name) \in DOMAIN SourceFiles
    /\ SourceFiles[InputFilename(Decls0[i].Name)].Parses

Unreadable(i) ==
    /\ Decls0[i].k = "ImportDecl"
    /\ InputFilename(Decls0[i].Name) \notin DOMAIN SourceFiles

LoadableImports == { i \in 1..Len(Decls0) : Loadable(i) }

UnitOfImport(i) == SourceFiles[InputFilename(Decls0[i].Name)].Decls

\* The module of the i-th declaration is the k-th one loaded.
Ordinal(i) == Cardinality({ j \in LoadableImports : j <= i })

\* Loadable imports of the unit whose module declares n at top level.
Providers(n) == { i \in LoadableImports : DeclsNamed(UnitOfImport(i), n) # {} }

DiagsAt(loc) == { d \in 1..Len(Context.Diags) : Context.Diags[d].Loc = loc }

\* The binder's tables are complete: pass 1 has been over the whole unit.
PrepassComplete ==
    /\ \A i \in 1..Len(Decls0) :
          Decls0[i].k = "ValueDecl" /\ Decls0[i].Name # EmptyName
             => MapHas(TopLevelValues, Decls0[i].Name)
    /\ { Imports[k].ID : k \in 1..Len(Imports) } = LoadableImports

\* Entries of the import list whose module declares n at top level.
EntriesDefining(n) ==
    { k \in 1..Len(Imports) :
        DeclsNamed(LoadedModules[Imports[k].RM].TUD, n) # {} }

BinderW == [LoadedModules |-> LoadedModules, Context |-> Context]

\* C1: after the prepass, bindValueName(name) returns a reference to the
\* local declaration when the unit's own table has the name, otherwise a
\* reference to a declaration of the earliest import-list entry whose module
\* declares the name; every reference rewritten so far follows that order.
C1_ResolutionPrecedence ==
    /\ pc = "rewrite" =>
         \A n \in RefNames :
            LET r == bindValueName(n, SMLoc(0, 0), BinderW).E
            IN  /\ MapHas(TopLevelValues, n) =>
                     r = DeclRefExpr(TopLevelValues[n], SMLoc(0, 0))
                /\ ~MapHas(TopLevelValues, n) /\ EntriesDefining(n) # {} =>
                     LET k == MinOf(EntriesDefining(n))
                     IN  /\ r.k = "DeclRefExpr"
                         /\ r.D.TU = Imports[k].RM
                         /\ r.D.Idx \in DeclsNamed(LoadedModules[Imports[k].RM].TUD, n)
    /\ \A s \in RefSites : Rewritten(s[1]) =>
         LET n == SiteRef(s).Name
         IN  /\ DeclsNamed(Decls0, n) # {} =>
                  /\ SiteNow(s).k = "DeclRefExpr"
                  /\ SiteNow(s).D.TU = MainTU
                  /\ SiteNow(s).D.Idx \in DeclsNamed(Decls0, n)
             /\ DeclsNamed(Decls0, n) = {} /\ Providers(n) # {} =>
                  /\ SiteNow(s).k = "DeclRefExpr"
                  /\ SiteNow(s).D.TU = Ordinal(MinOf(Providers(n)))
                  /\ SiteNow(s).D.Idx \in
                        DeclsNamed(UnitOfImport(MinOf(Providers(n))), n)

\* A reference to a name that two imports declare has been bound to the
\* first import's declaration, and one to a name declared locally and by an
\* import has been bound to the local one.
C1_Witness ==
    /\ \E s \in RefSites :
          /\ Rewritten(s[1])
          /\ DeclsNamed(Decls0, SiteRef(s).Name) = {}
          /\ Cardinality(Providers(SiteRef(s).Name)) >= 2
          /\ SiteNow(s).k = "DeclRefExpr"
          /\ SiteNow(s).D.TU = 1
    /\ \E n \in RefNames : DeclsNamed(Decls0, n) # {} /\ Providers(n) # {}

\* C2: no reference is resolved during the prepass, the rewrite starts with
\* every named value registered and every import processed, and a reference
\* to a name declared exactly once in the unit is bound to that declaration
\* whether it stands before or after the use.
C2_PrepassBeforeRewrite ==
    /\ pc = "prepass" =>
          /\ Decls = Decls0
          /\ \A k \in 1..Len(LoadedModules) : LoadedModules[k].Lookups = 0
          /\ \A s \in RefSites : DiagsAt(SiteRef(s).Loc) = {}
    /\ pc = "rewrite" => PrepassComplete
    /\ \A s \in RefSites : Rewritten(s[1]) =>
          \A j \in 1..Len(Decls0) :
             DeclsNamed(Decls0, SiteRef(s).Name) = {j} =>
                SiteNow(s) = DeclRefExpr(DeclPtr(MainTU, j), SiteRef(s).Loc)

\* A forward reference has been bound: the only declaration of the name
\* comes after the use.
C2_Witness ==
    \E s \in RefSites : \E j \in 1..Len(Decls0) :
        /\ Rewritten(s[1])
        /\ j > s[1]
        /\ DeclsNamed(Decls0, SiteRef(s).Name) = {j}
        /\ SiteNow(s) = DeclRefExpr(DeclPtr(MainTU, j), SiteRef(s).Loc)

\* No declaration of the unit and no loaded import declares the name.
Undeclared(n) == DeclsNamed(Decls0, n) = {} /\ Providers(n) = {}

UnresolvedMessage(n) == <<"use of unresolved identifier", n>>

\* Every position of the initializer of the i-th declaration that held an
\* unresolved reference now holds a resolved reference or nothing.
InitRewritten(i) ==
    \A s \in RefSites : s[1] = i => SiteNow(s).k \in {"DeclRefExpr", "null"}

\* C3: a reference to a name that neither the unit nor a loaded import
\* declares yields a null result at its position, exactly one diagnostic at
\* its location, of error severity, and the error flag; the rewrite leaves
\* no reference behind in any declaration it has been over, failures or not.
C3_UnresolvedIdentifier ==
    /\ \A s \in RefSites : Rewritten(s[1]) /\ Undeclared(SiteRef(s).Name) =>
          LET at == DiagsAt(SiteRef(s).Loc)
          IN  /\ SiteNow(s) = NullExpr
              /\ Cardinality(at) = 1
              /\ \A d \in at :
                    Context.Diags[d] =
                       Diagnostic(SiteRef(s).Loc,
                                  UnresolvedMessage(SiteRef(s).Name), "error")
              /\ Context.HadError
    /\ \A i \in 1..Len(Decls0) : Rewritten(i) => InitRewritten(i)

\* An unresolved reference has been reported and a reference of a later
\* declaration has been bound after it.
C3_Witness ==
    \E s \in RefSites : \E t \in RefSites :
        /\ Rewritten(t[1])
        /\ s[1] < t[1]
        /\ Undeclared(SiteRef(s).Name)
        /\ SiteNow(s) = NullExpr
        /\ Cardinality(DiagsAt(SiteRef(s).Loc)) = 1
        /\ SiteNow(t).k = "DeclRefExpr"

\* The declarations the prepass has been over.
Prepassed == IF pc = "prepass" THEN 1..(I - 1) ELSE 1..Len(Decls0)

\* C4: an import whose file cannot be read leaves exactly one error
\* diagnostic at the import statement and nothing else: the import list is
\* the loaded imports of the declarations passed so far, in source order,
\* each with its own module, and every named value passed is registered.
C4_ImportFailureIsolated ==
    pc \in {"prepass", "rewrite"} =>
        /\ \A i \in Prepassed : Unreadable(i) =>
              /\ Cardinality(DiagsAt(Decls0[i].ImportLoc)) = 1
              /\ \A d \in DiagsAt(Decls0[i].ImportLoc) :
                    Context.Diags[d].Kind = "error"
              /\ \A k \in 1..Len(Imports) : Imports[k].ID # i
        /\ { Imports[k].ID : k \in 1..Len(Imports) } = LoadableImports \cap Prepassed
        /\ \A k \in 1..Len(Imports) : \A l \in 1..Len(Imports) :
              k < l => Imports[k].ID < Imports[l].ID
        /\ Len(LoadedModules) = Len(Imports)
        /\ \A k \in 1..Len(Imports) : Imports[k].RM = k
        /\ \A i \in Prepassed :
              Decls0[i].k = "ValueDecl" /\ Decls0[i].Name # EmptyName
                 => MapHas(TopLevelValues, Decls0[i].Name)

\* The prepass is over; an unreadable import was followed by a value
\* declaration and by an import that loaded.
C4_Witness ==
    /\ pc = "rewrite"
    /\ \E i \in 1..Len(Decls0) : \E j \in 1..Len(Decls0) : \E l \in 1..Len(Decls0) :
          /\ Unreadable(i)
          /\ i < j /\ i < l
          /\ Decls0[j].k = "ValueDecl" /\ MapHas(TopLevelValues, Decls0[j].Name)
          /\ Loadable(l)
          /\ Len(Imports) = 1 /\ Imports[1].ID = l

\* C5: the declarations of a module are scanned on the first lookupValue
\* call only, whatever the module holds.
C5_ScannedOnce ==
    \A k \in 1..Len(LoadedModules) : LoadedModules[k].Scans <= 1

\* C6: with several value declarations of one name, the unit's own table
\* and the mapping of an imported module both hold the last of them.
C6_LastDeclarationWins ==
    /\ pc \in {"prepass", "rewrite"} =>
          \A n \in RefNames :
             LET mine == DeclsNamed(Decls0, n) \cap Prepassed
             IN  mine # {} => TopLevelValues[n] = DeclPtr(MainTU, MaxOf(mine))
    /\ \A k \in 1..Len(LoadedModules) : \A n \in RefNames :
          LET theirs == DeclsNamed(LoadedModules[k].TUD, n)
          IN  theirs # {} =>
                 /\ lookupValue(LoadedModules[k], n).D = DeclPtr(k, MaxOf(theirs))
                 /\ LoadedModules[k].Scans > 0 =>
                       LoadedModules[k].TopLevelValues[n] = DeclPtr(k, MaxOf(theirs))

\* The unit declares a name twice and has loaded a module that declares a
\* name twice; both tables are built and a reference to the unit's name has
\* been bound to the later declaration.
C6_Witness ==
    /\ pc = "rewrite"
    /\ \E n \in RefNames :
          /\ Cardinality(DeclsNamed(Decls0, n)) >= 2
          /\ \E s \in RefSites :
                /\ Rewritten(s[1])
                /\ SiteRef(s).Name = n
                /\ SiteNow(s).k = "DeclRefExpr"
                /\ SiteNow(s).D = DeclPtr(MainTU, MaxOf(DeclsNamed(Decls0, n)))
    /\ \E k \in 1..Len(LoadedModules) : \E n \in RefNames :
          /\ Cardinality(DeclsNamed(LoadedModules[k].TUD, n)) >= 2
          /\ LoadedModules[k].Scans > 0

\* An expression holds an unresolved reference somewhere.
HasUnresolved(E) ==
    \E p \in Positions(E) : NodeAt(E, p).k = "UnresolvedDeclRefExpr"

\* C7: when performNameBinding has returned, no initializer of the unit
\* holds an unresolved reference: each one has become one resolved reference
\* at the same location, or a null result with an error diagnostic at that
\* location, and every other node is as parsed.
C7_NoUnresolvedLeft ==
    pc = "done" =>
        /\ \A i \in 1..Len(Decls) :
              Decls[i].k = "ValueDecl" => ~HasUnresolved(Decls[i].Init)
        /\ \A s \in RefSites :
              \/ /\ SiteNow(s).k = "DeclRefExpr"
                 /\ SiteNow(s).Loc = SiteRef(s).Loc
                 /\ SiteNow(s).D # NullDecl
                 /\ DiagsAt(SiteRef(s).Loc) = {}
              \/ /\ SiteNow(s) = NullExpr
                 /\ \E d \in DiagsAt(SiteRef(s).Loc) :
                       Context.Diags[d].Kind = "error"
        /\ \A i \in 1..Len(Decls) :
              /\ Decls[i].k = Decls0[i].k
              /\ Decls[i].k = "ValueDecl" =>
                    /\ Decls[i].Name = Decls0[i].Name
                    /\ Positions(Decls[i].Init) = Positions(Decls0[i].Init)
                    /\ \A p \in Positions(Decls0[i].Init) :
                          <<i, p>> \notin RefSites /\ p # 0 =>
                             NodeAt(Decls[i].Init, p) = NodeAt(Decls0[i].Init, p)
              /\ Decls[i].k # "ValueDecl" => Decls[i] = Decls0[i]

\* The pass has returned from a unit in which one reference was bound and
\* another one was not.
C7_Witness ==
    /\ pc = "done"
    /\ \E s \in RefSites : SiteNow(s).k = "DeclRefExpr"
    /\ \E s \in RefSites : SiteNow(s) = NullExpr

ErrorDiags == { d \in 1..Len(Context.Diags) : Context.Diags[d].Kind = "error" }

\* C8: the error flag, unset on entry, is set exactly when an error
\* diagnostic has been emitted; after the pass it is unset when every import
\* loaded and every reference was bound, and set when an import file could
\* not be read or a reference was left unresolved.
C8_ErrorFlag ==
    /\ Context.HadError <=> ErrorDiags # {}
    /\ pc = "done" =>
          /\ (/\ \A i \in 1..Len(Decls0) : Decls0[i].k = "ImportDecl" => Loadable(i)
              /\ \A s \in RefSites : ~Undeclared(SiteRef(s).Name))
                => ~Context.HadError
          /\ (\E i \in 1..Len(Decls0) : Unreadable(i)) => Context.HadError
          /\ (\E s \in RefSites : Undeclared(SiteRef(s).Name)) => Context.HadError

\* The pass has returned with the flag unset after binding a reference to
\* the declaration of an imported module.
C8_Witness ==
    /\ pc = "done"
    /\ ~Context.HadError
    /\ LoadableImports # {}
    /\ \E s \in RefSites : SiteNow(s).k = "DeclRefExpr" /\ SiteNow(s).D.TU # MainTU

\* Every failure of the unit has its diagnostic.
AllReported ==
    /\ \A i \in 1..Len(Decls0) : Unreadable(i) =>
          \E d \in DiagsAt(Decls0[i].ImportLoc) : Context.Diags[d].Kind = "error"
    /\ \A s \in RefSites : Undeclared(SiteRef(s).Name) =>
          \E d \in DiagsAt(SiteRef(s).Loc) :
             Context.Diags[d].Message = UnresolvedMessage(SiteRef(s).Name)
    /\ \A i \in 1..Len(Decls0) : InitRewritten(i)

\* Loop iterations and loop exits left before performNameBinding returns.
Remaining ==
    CASE pc = "prepass" -> 2 * Len(Decls) + 3 - I
      [] pc = "rewrite" -> Len(Decls) + 2 - I
      [] OTHER -> 0

\* The guard of a loop body or of a loop exit holds: a step is possible.
CanStep ==
    /\ pc \in {"prepass", "rewrite"}
    /\ I <= Len(Decls) \/ I > Len(Decls)

\* C9: performNameBinding returns for every unit: until it has returned a
\* next step is always possible and every step brings the return nearer;
\* and when it has returned every unreadable import and every unresolved
\* reference of the unit has been reported and every initializer rewritten.
C9_RunsToCompletion ==
    /\ [](pc # "done" => CanStep)
    /\ [](Remaining >= 0 /\ (Remaining = 0 <=> pc = "done"))
    /\ [][Remaining' < Remaining]_vars
    /\ [](pc = "done" => AllReported)

\* The pass has returned from a unit with an unreadable import and two
\* unresolved references, all three reported.
C9_Witness ==
    /\ pc = "done"
    /\ \E i \in 1..Len(Decls0) : Unreadable(i)
    /\ Cardinality({ s \in RefSites : Undeclared(SiteRef(s).Name) }) >= 2
    /\ AllReported
    /\ Len(Context.Diags) >= 3

\* Names declared at top level by the module of a loaded import.
DirectlyImported == { n \in RefNames : Providers(n) # {} }

\* Names declared by a module that a loaded import imports in turn.
ImportedByImport ==
    { n \in RefNames :
        \E i \in LoadableImports : \E j \in 1..Len(UnitOfImport(i)) :
            /\ UnitOfImport(i)[j].k = "ImportDecl"
            /\ InputFilename(UnitOfImport(i)[j].Name) \in DOMAIN SourceFiles
            /\ DeclsNamed(SourceFiles[InputFilename(UnitOfImport(i)[j].Name)].Decls, n) # {} }

\* C10: a name that neither the unit nor the unit of a loaded import
\* declares is not visible, whether or not a module imported by an imported
\* module declares it: a reference to it is reported as unresolved; no module
\* and no source buffer is loaded for the import statements of an imported
\* module, and the declarations of an imported module stay as parsed.
C10_ImportsNotTransitive ==
    /\ \A s \in RefSites :
          (/\ Rewritten(s[1])
           /\ DeclsNamed(Decls0, SiteRef(s).Name) = {}
           /\ Providers(SiteRef(s).Name) = {}) =>
              /\ SiteNow(s) = NullExpr
              /\ DiagsAt(SiteRef(s).Loc) # {}
    /\ pc = "rewrite" =>
          \A n \in RefNames :
             ~MapHas(TopLevelValues, n) /\ Providers(n) = {} =>
                bindValueName(n, SMLoc(0, 0), BinderW).E = NullExpr
    /\ Len(Context.Buffers) <=
          Cardinality({ i \in 1..Len(Decls0) : Decls0[i].k = "ImportDecl" })
    /\ \A b \in 1..Len(Context.Buffers) :
          \E i \in 1..Len(Decls0) :
             /\ Decls0[i].k = "ImportDecl"
             /\ Context.Buffers[b] =
                   [File |-> InputFilename(Decls0[i].Name),
                    IncludeLoc |-> Decls0[i].ImportLoc]
    /\ \A k \in 1..Len(LoadedModules) :
          /\ k \in 1..Len(Imports)
          /\ LoadedModules[k].TUD = UnitOfImport(Imports[k].ID)
    /\ Len(LoadedModules) <= Cardinality(LoadableImports)

\* A module that imports M is loaded, M itself is not, and a reference to
\* the name that only M declares has been left unresolved.
C10_Witness ==
    \E s \in RefSites :
        /\ Rewritten(s[1])
        /\ SiteRef(s).Name \in ImportedByImport \ DirectlyImported
        /\ DeclsNamed(Decls0, SiteRef(s).Name) = {}
        /\ SiteNow(s) = NullExpr
        /\ DiagsAt(SiteRef(s).Loc) # {}

====
